---- MODULE Spec2Model ----
(***************************************************************************)
(* Model of src/main.py: the deadline-reminder pipeline.                   *)
(*   load_students_from_excel -> main_reminder_logic (per-student loop)    *)
(*   -> send_email_reminder -> send_admin_alert.                           *)
(* Text values that the code parses, splits or lower-cases are sequences   *)
(* of one-character strings; text that the code only copies is a string.   *)
(* An optional value (os.getenv, strptime raising ValueError) is a         *)
(* sequence of length 0 (None / raised) or 1 (the value).                  *)
(***************************************************************************)
EXTENDS Integers, Sequences, FiniteSets, TLC

\* ------------------------------------------------------------------ bounds
\* Largest number of data rows of the input file.
MaxRows == 2
\* Largest number of tasks of a student in a hand-built roster (SpecRoster).
MaxTasks == 2

\* ------------------------------------------------------- text primitives
DigitChars == <<"0", "1", "2", "3", "4", "5", "6", "7", "8", "9">>

IsDigit(c) == \E k \in 1..10 : DigitChars[k] = c

DigitVal(c) == (CHOOSE k \in 1..10 : DigitChars[k] = c) - 1

\* The cased letters of the headers: A-Z and the capital letters of Latin-1
\* (the accented capitals of Spanish among them), each with the letter
\* str.lower() gives for it. Every other character is left as it is.
UpperChars == <<"A", "B", "C", "D", "E", "F", "G", "H", "I", "J", "K", "L",
                "M", "N", "O", "P", "Q", "R", "S", "T", "U", "V", "W", "X",
                "Y", "Z", "À", "Á", "Â", "Ã", "Ä", "Å", "Æ", "Ç", "È", "É",
                "Ê", "Ë", "Ì", "Í", "Î", "Ï", "Ð", "Ñ", "Ò", "Ó", "Ô", "Õ",
                "Ö", "Ø", "Ù", "Ú", "Û", "Ü", "Ý", "Þ">>

LowerChars == <<"a", "b", "c", "d", "e", "f", "g", "h", "i", "j", "k", "l",
                "m", "n", "o", "p", "q", "r", "s", "t", "u", "v", "w", "x",
                "y", "z", "à", "á", "â", "ã", "ä", "å", "æ", "ç", "è", "é",
                "ê", "ë", "ì", "í", "î", "ï", "ð", "ñ", "ò", "ó", "ô", "õ",
                "ö", "ø", "ù", "ú", "û", "ü", "ý", "þ">>

\* str.lower() on one character.
LowerChar(c) ==
    IF \E k \in 1..Len(UpperChars) : UpperChars[k] = c
    THEN LowerChars[CHOOSE k \in 1..Len(UpperChars) : UpperChars[k] = c]
    ELSE c

\* str.lower()
Lower(s) == [k \in 1..Len(s) |-> LowerChar(s[k])]

\* str.endswith(suffix)
EndsWith(s, suffix) ==
    /\ Len(s) >= Len(suffix)
    /\ SubSeq(s, Len(s) - Len(suffix) + 1, Len(s)) = suffix

\* str.split(sep) with an explicit one-character separator: every occurrence
\* cuts, empty pieces are kept, a text without the separator is one piece.
RECURSIVE Split(_, _)
Split(s, sep) ==
    IF \E k \in 1..Len(s) : s[k] = sep
    THEN LET p == CHOOSE k \in 1..Len(s) :
                      /\ s[k] = sep
                      /\ \A q \in 1..(k - 1) : s[q] # sep
         IN  <<SubSeq(s, 1, p - 1)>> \o Split(SubSeq(s, p + 1, Len(s)), sep)
    ELSE <<s>>

\* Zero-padded decimal rendering, as in the ISO form of a pandas Timestamp.
Pad2(n) == <<DigitChars[((n \div 10) % 10) + 1], DigitChars[(n % 10) + 1]>>

Pad4(n) == <<DigitChars[((n \div 1000) % 10) + 1], DigitChars[((n \div 100) % 10) + 1]>>
           \o Pad2(n % 100)

\* ------------------------------------------------------------------ dates
\* A calendar date is <<year, month, day>>.
IsLeap(y) == (y % 4 = 0 /\ y % 100 # 0) \/ y % 400 = 0

DaysInMonth(y, m) ==
    IF m = 2 THEN (IF IsLeap(y) THEN 29 ELSE 28)
    ELSE IF m \in {4, 6, 9, 11} THEN 30 ELSE 31

\* date.__lt__
DateLT(a, b) ==
    \/ a[1] < b[1]
    \/ a[1] = b[1] /\ a[2] < b[2]
    \/ a[1] = b[1] /\ a[2] = b[2] /\ a[3] < b[3]

\* Length of the text the %m directive consumes at position p (0: no match).
\* The directive is the alternation 1[0-2] | 0[1-9] | [1-9].
MonthLen(s, p) ==
    IF /\ p + 1 <= Len(s)
       /\ \/ s[p] = "1" /\ s[p + 1] \in {"0", "1", "2"}
          \/ s[p] = "0" /\ IsDigit(s[p + 1]) /\ s[p + 1] # "0"
    THEN 2
    ELSE IF p <= Len(s) /\ IsDigit(s[p]) /\ s[p] # "0" THEN 1 ELSE 0

\* Length of the text the %d directive consumes at position p (0: no match).
\* The directive is the alternation 3[01] | [12]\d | 0[1-9] | [1-9] | " "[1-9].
DayLen(s, p) ==
    IF /\ p + 1 <= Len(s)
       /\ \/ s[p] = "3" /\ s[p + 1] \in {"0", "1"}
          \/ s[p] \in {"1", "2"} /\ IsDigit(s[p + 1])
          \/ s[p] = "0" /\ IsDigit(s[p + 1]) /\ s[p + 1] # "0"
    THEN 2
    ELSE IF p <= Len(s) /\ IsDigit(s[p]) /\ s[p] # "0" THEN 1
    ELSE IF p + 1 <= Len(s) /\ s[p] = " " /\ IsDigit(s[p + 1]) /\ s[p + 1] # "0"
    THEN 2 ELSE 0

\* Value of a run of digits (a leading blank of %d counts as nothing).
RECURSIVE NumVal(_)
NumVal(s) ==
    IF s = <<>> THEN 0
    ELSE IF s[Len(s)] = " " THEN 0
    ELSE 10 * NumVal(SubSeq(s, 1, Len(s) - 1)) + DigitVal(s[Len(s)])

\* datetime.strptime(s, '%Y-%m-%d').date(): <<date>>, or <<>> when strptime
\* raises ValueError (no match, unconverted data remains, or no such day).
strptime(s) ==
    IF ~(/\ Len(s) >= 5
         /\ \A k \in 1..4 : IsDigit(s[k])
         /\ s[5] = "-")
    THEN <<>>
    ELSE LET ml == MonthLen(s, 6) IN
         IF ml = 0 \/ 6 + ml > Len(s) THEN <<>>
         ELSE IF s[6 + ml] # "-" THEN <<>>
         ELSE LET dp == 7 + ml
                  dl == DayLen(s, dp) IN
              IF dl = 0 \/ dp + dl - 1 # Len(s) THEN <<>>
              ELSE LET y == NumVal(SubSeq(s, 1, 4))
                       m == NumVal(SubSeq(s, 6, 5 + ml))
                       d == NumVal(SubSeq(s, dp, dp + dl - 1)) IN
                   IF y >= 1 /\ d <= DaysInMonth(y, m) THEN <<(<<y, m, d>>)>>
                   ELSE <<>>

\* ------------------------------------------------------------- cell values
\* A due-date cell as pandas hands it over: a text, a Timestamp at midnight,
\* or NaN (an empty cell).
StrCell(t) == [kind |-> "str", text |-> t, date |-> <<0, 0, 0>>]
TsCell(d) == [kind |-> "ts", text |-> <<>>, date |-> d]
NanCell == [kind |-> "nan", text |-> <<>>, date |-> <<0, 0, 0>>]

\* str(cell)
StrOf(cell) ==
    IF cell.kind = "ts"
    THEN Pad4(cell.date[1]) \o <<"-">> \o Pad2(cell.date[2]) \o <<"-">>
         \o Pad2(cell.date[3]) \o <<" ", "0", "0", ":", "0", "0", ":", "0", "0">>
    ELSE IF cell.kind = "nan" THEN <<"n", "a", "n">>
    ELSE cell.text

\* str(row['vencimiento']).split(' ')[0]
DatePortion(cell) == Split(StrOf(cell), " ")[1]

\* ------------------------------------------------------------------ state
VARIABLES
    EMAIL_USER,            \* os.getenv('EMAIL_USER'): <<>> or <<text>>
    EMAIL_PASSWORD,        \* os.getenv('EMAIL_PASSWORD')
    ADMIN_EMAIL,           \* os.getenv('ADMIN_EMAIL')
    file,                  \* the input file: path and what pandas reads from it
    pc,                    \* position of the run
    ALUMNOS_A_MONITOREAR,  \* the roster load_students_from_excel returned
    hoy,                   \* datetime.now().date() of the run
    i,                     \* position of the student being processed
    j,                     \* position of that student's task being evaluated
    tareas_para_recordar,  \* the current student's reminder list
    data_warnings,         \* the run's warning collection
    admin_alerts,          \* every call of send_admin_alert: subject and body
    reminders,             \* every call of send_email_reminder
    smtp_log               \* every SMTP session opened, with its outcome

vars == <<EMAIL_USER, EMAIL_PASSWORD, ADMIN_EMAIL, file, pc, ALUMNOS_A_MONITOREAR,
          hoy, i, j, tareas_para_recordar, data_warnings, admin_alerts,
          reminders, smtp_log>>

env == <<EMAIL_USER, EMAIL_PASSWORD, ADMIN_EMAIL, file>>

NoDate == <<0, 0, 0>>

\* Python truth value of an optional text: None and '' are false.
Truthy(v) == v # <<>> /\ v[1] # <<>>

\* ----------------------------------------------------------- admin alerts
\* The body of an admin alert: its fixed text, the student address it names
\* (delivery failures) and the warnings it lists (the end-of-run batch).
AlertBody(msg, email, warnings) == [msg |-> msg, email |-> email, warnings |-> warnings]

\* The condition of the early return of send_admin_alert.
AlertUnconfigured == ~Truthy(ADMIN_EMAIL) \/ ~Truthy(EMAIL_USER) \/ ~Truthy(EMAIL_PASSWORD)

\* A variant of send_admin_alert that tries a second session when the first
\* one fails.
send_admin_alert_retry(out, subject, body, ok) ==
    IF AlertUnconfigured
    THEN [out EXCEPT !.alerts = Append(@, [subject |-> subject, body |-> body])]
    ELSE [out EXCEPT !.alerts = Append(@, [subject |-> subject, body |-> body]),
                     !.smtp = IF ok
                              THEN Append(@, [kind |-> "alerta", ok |-> ok])
                              ELSE Append(Append(@, [kind |-> "alerta", ok |-> ok]),
                                          [kind |-> "alerta", ok |-> ok])]

\* send_admin_alert(subject, body) applied to the outside world
\* out = [alerts, smtp, sent]; ok is the outcome of the SMTP session, if one
\* is opened. The function returns normally on every path.
send_admin_alert(out, subject, body, ok) ==
    IF AlertUnconfigured
    THEN [out EXCEPT !.alerts = Append(@, [subject |-> subject, body |-> body])]
    ELSE [out EXCEPT !.alerts = Append(@, [subject |-> subject, body |-> body]),
                     !.smtp = Append(@, [kind |-> "alerta", ok |-> ok])]

\* The outside world before a call, and its assignment after it.
World == [alerts |-> admin_alerts, smtp |-> smtp_log, sent |-> reminders]

SetWorld(out) ==
    /\ admin_alerts' = out.alerts
    /\ smtp_log' = out.smtp
    /\ reminders' = out.sent

\* ----------------------------------------------------------------- loader
required_cols == << <<"n", "o", "m", "b", "r", "e">>,
                    <<"e", "m", "a", "i", "l">>,
                    <<"v", "e", "n", "c", "i", "m", "i", "e", "n", "t", "o">> >>

TaskLabel == "Entrega Final del Curso (Adulto Mayor)"

\* df.columns.str.lower()
LowerColumns(cols) == [k \in 1..Len(cols) |-> Lower(cols[k])]

\* all(col in df.columns for col in required_cols)
HasRequired(cols) ==
    \A r \in 1..Len(required_cols) : \E k \in 1..Len(cols) : cols[k] = required_cols[r]

\* row[col]: the cell of the row under the column of that name.
RowGet(cols, row, col) == row[CHOOSE k \in 1..Len(cols) : cols[k] = col]

\* A variant of AlumnoOfRow that numbers the students from 0.
AlumnoOfRow_index0(cols, rows, index) ==
    [id |-> index,
     nombre |-> RowGet(cols, rows[index + 1], required_cols[1]),
     email |-> RowGet(cols, rows[index + 1], required_cols[2]),
     tareas_pendientes |->
        << [nombre |-> TaskLabel,
            vencimiento |-> DatePortion(RowGet(cols, rows[index + 1], required_cols[3])),
            entregado |-> FALSE] >>]

\* The body of the for loop over df.iterrows(): the student of one row.
AlumnoOfRow(cols, rows, index) ==
    [id |-> index + 1,
     nombre |-> RowGet(cols, rows[index + 1], required_cols[1]),
     email |-> RowGet(cols, rows[index + 1], required_cols[2]),
     tareas_pendientes |->
        << [nombre |-> TaskLabel,
            vencimiento |-> DatePortion(RowGet(cols, rows[index + 1], required_cols[3])),
            entregado |-> FALSE] >>]

\* A variant of LoadBranch that does not look at the extension.
LoadBranch_any_extension(f) ==
    IF f.read = "notfound" THEN "NO_ENCONTRADO"
    ELSE IF f.read = "error" THEN "ERROR_LECTURA"
    ELSE IF ~HasRequired(LowerColumns(f.columns)) THEN "COLUMNAS"
    ELSE "OK"

\* The branch load_students_from_excel takes on a file.
LoadBranch(f) ==
    IF ~EndsWith(f.path, <<".", "x", "l", "s", "x">>) /\ ~EndsWith(f.path, <<".", "c", "s", "v">>)
    THEN "FORMATO"
    ELSE IF f.read = "notfound" THEN "NO_ENCONTRADO"
    ELSE IF f.read = "error" THEN "ERROR_LECTURA"
    ELSE IF ~HasRequired(LowerColumns(f.columns)) THEN "COLUMNAS"
    ELSE "OK"

\* The subject of the admin alert of each failure branch.
LoadSubject(branch) ==
    CASE branch = "FORMATO" -> "FORMATO DE ARCHIVO INVÁLIDO"
      [] branch = "COLUMNAS" -> "COLUMNAS FALTANTES EN EXCEL/CSV"
      [] branch = "NO_ENCONTRADO" -> "ARCHIVO DE DATOS NO ENCONTRADO"
      [] branch = "ERROR_LECTURA" -> "ERROR CRÍTICO EN LA LECTURA DE EXCEL/CSV"

LoadMessage(branch) ==
    CASE branch = "FORMATO" -> "Error: El archivo debe ser .xlsx o .csv"
      [] branch = "COLUMNAS" -> "Error: El archivo Excel debe contener las columnas"
      [] branch = "NO_ENCONTRADO" -> "Error: No se encontró el archivo"
      [] branch = "ERROR_LECTURA" -> "Error crítico al procesar el archivo Excel"

\* The list load_students_from_excel returns.
load_students_from_excel(f) ==
    IF LoadBranch(f) = "OK"
    THEN [k \in 1..Len(f.rows) |-> AlumnoOfRow(LowerColumns(f.columns), f.rows, k - 1)]
    ELSE <<>>

\* ------------------------------------------------------------- evaluation
PlazoHoy == [label |-> "**¡PLAZO FINAL HOY!**", fecha |-> <<>>]

PlazoExpirado(vencimiento) == [label |-> "**PLAZO EXPIRADO**", fecha |-> vencimiento]

\* warning_msg: the student, the task and the raw value it names.
WarningMsg(nombre, tarea) ==
    [nombre |-> nombre, tarea |-> tarea.nombre, valor |-> tarea.vencimiento]

\* Variants of EvalTarea with a slip in one branch: the comparison reversed,
\* the submitted flag not read, an unparsable date treated as expired.
EvalTarea_reversed(nombre, tarea, today) ==
    IF tarea.entregado
    THEN [recordar |-> <<>>, warnings |-> <<>>]
    ELSE LET fecha_vencimiento == strptime(tarea.vencimiento) IN
         IF fecha_vencimiento = <<>>
         THEN [recordar |-> <<>>, warnings |-> <<WarningMsg(nombre, tarea)>>]
         ELSE IF fecha_vencimiento[1] = today
         THEN [recordar |-> <<[nombre |-> tarea.nombre, estado |-> PlazoHoy]>>,
               warnings |-> <<>>]
         ELSE IF DateLT(today, fecha_vencimiento[1])
         THEN [recordar |-> <<[nombre |-> tarea.nombre,
                               estado |-> PlazoExpirado(tarea.vencimiento)]>>,
               warnings |-> <<>>]
         ELSE [recordar |-> <<>>, warnings |-> <<>>]

EvalTarea_ignores_entregado(nombre, tarea, today) ==
    LET fecha_vencimiento == strptime(tarea.vencimiento) IN
    IF fecha_vencimiento = <<>>
    THEN [recordar |-> <<>>, warnings |-> <<WarningMsg(nombre, tarea)>>]
    ELSE IF fecha_vencimiento[1] = today
    THEN [recordar |-> <<[nombre |-> tarea.nombre, estado |-> PlazoHoy]>>,
          warnings |-> <<>>]
    ELSE IF DateLT(fecha_vencimiento[1], today)
    THEN [recordar |-> <<[nombre |-> tarea.nombre,
                          estado |-> PlazoExpirado(tarea.vencimiento)]>>,
          warnings |-> <<>>]
    ELSE [recordar |-> <<>>, warnings |-> <<>>]

EvalTarea_bad_date_expired(nombre, tarea, today) ==
    IF tarea.entregado
    THEN [recordar |-> <<>>, warnings |-> <<>>]
    ELSE LET fecha_vencimiento == strptime(tarea.vencimiento) IN
         IF fecha_vencimiento = <<>>
         THEN [recordar |-> <<[nombre |-> tarea.nombre,
                               estado |-> PlazoExpirado(tarea.vencimiento)]>>,
               warnings |-> <<WarningMsg(nombre, tarea)>>]
         ELSE IF fecha_vencimiento[1] = today
         THEN [recordar |-> <<[nombre |-> tarea.nombre, estado |-> PlazoHoy]>>,
               warnings |-> <<>>]
         ELSE IF DateLT(fecha_vencimiento[1], today)
         THEN [recordar |-> <<[nombre |-> tarea.nombre,
                               estado |-> PlazoExpirado(tarea.vencimiento)]>>,
               warnings |-> <<>>]
         ELSE [recordar |-> <<>>, warnings |-> <<>>]

\* One pass of the body of `for tarea in alumno.get('tareas_pendientes', [])`:
\* what it appends to tareas_para_recordar and to data_warnings.
EvalTarea(nombre, tarea, today) ==
    IF tarea.entregado
    THEN [recordar |-> <<>>, warnings |-> <<>>]
    ELSE LET fecha_vencimiento == strptime(tarea.vencimiento) IN
         IF fecha_vencimiento = <<>>
         THEN [recordar |-> <<>>, warnings |-> <<WarningMsg(nombre, tarea)>>]
         ELSE IF fecha_vencimiento[1] = today
         THEN [recordar |-> <<[nombre |-> tarea.nombre, estado |-> PlazoHoy]>>,
               warnings |-> <<>>]
         ELSE IF DateLT(fecha_vencimiento[1], today)
         THEN [recordar |-> <<[nombre |-> tarea.nombre,
                               estado |-> PlazoExpirado(tarea.vencimiento)]>>,
               warnings |-> <<>>]
         ELSE [recordar |-> <<>>, warnings |-> <<>>]

\* ------------------------------------------------------------ reminder send
\* EMAIL_USER.split('@')[1] in the message body: "AttributeError" when
\* EMAIL_USER is None, "IndexError" when it holds no '@', else "ok".
ComposeOutcome ==
    IF EMAIL_USER = <<>> THEN "AttributeError"
    ELSE IF Len(Split(EMAIL_USER[1], "@")) < 2 THEN "IndexError"
    ELSE "ok"

Dominio == Split(EMAIL_USER[1], "@")[2]

\* Variants of send_email_reminder: a failure that is not escalated, and a
\* failed send that is made a second time.
send_email_reminder_silent(out, pos, to_email, body, ok, aok) ==
    [out EXCEPT !.smtp = Append(@, [kind |-> "recordatorio", ok |-> ok]),
                !.sent = Append(@, [pos |-> pos, to |-> to_email,
                                    body |-> body, ok |-> ok])]

send_email_reminder_twice(out, pos, to_email, body, ok, aok) ==
    LET entry == [pos |-> pos, to |-> to_email, body |-> body, ok |-> ok]
        tried == [out EXCEPT
                    !.smtp = Append(@, [kind |-> "recordatorio", ok |-> ok]),
                    !.sent = IF ok THEN Append(@, entry)
                                   ELSE Append(Append(@, entry), entry)]
    IN  IF ok THEN tried
        ELSE send_admin_alert(tried, "FALLO DE ENVÍO DE CORREO A ESTUDIANTE",
                              AlertBody("FALLO DE ENVÍO SMTP", to_email, <<>>), aok)

\* send_email_reminder(to_email, subject, body) applied to the outside world:
\* one SMTP session with outcome ok; on failure one admin alert (whose own
\* session, if any, has outcome aok). pos is the roster position of the
\* student the message was composed for.
send_email_reminder(out, pos, to_email, body, ok, aok) ==
    LET tried == [out EXCEPT
                    !.smtp = Append(@, [kind |-> "recordatorio", ok |-> ok]),
                    !.sent = Append(@, [pos |-> pos, to |-> to_email,
                                        body |-> body, ok |-> ok])]
    IN  IF ok THEN tried
        ELSE send_admin_alert(tried, "FALLO DE ENVÍO DE CORREO A ESTUDIANTE",
                              AlertBody("FALLO DE ENVÍO SMTP", to_email, <<>>), aok)

\* ------------------------------------------------------------------ inputs
\* Paths stand for the file_path argument of load_students_from_excel (the
\* run passes EXCEL_FILE_PATH, a name ending in .xlsx); only the ending is
\* read by the code.
Chars_xlsx == <<"a", ".", "x", "l", "s", "x">>
Chars_csv == <<"a", ".", "c", "s", "v">>
Chars_txt == <<"a", ".", "t", "x", "t">>
Chars_XLSX == <<"a", ".", "X", "L", "S", "X">>

Header_Title == << <<"N", "o", "m", "b", "r", "e">>,
                   <<"E", "M", "A", "I", "L">>,
                   <<"V", "e", "n", "c", "i", "m", "i", "e", "n", "t", "o">> >>

Header_Extra == required_cols \o << <<"A", "Ñ", "O">> >>

Header_NoEmail == << <<"n", "o", "m", "b", "r", "e">>,
                     <<"c", "o", "r", "r", "e", "o">>,
                     <<"v", "e", "n", "c", "i", "m", "i", "e", "n", "t", "o">> >>

Header_Short == << <<"N", "o", "m", "b", "r", "e">>, <<"E", "m", "a", "i", "l">> >>

Personas == { [nombre |-> "Ana", email |-> "ana@mail.cl"],
              [nombre |-> "Luis", email |-> "luis@mail.cl"] }

Cells ==
    { TsCell(<<2024, 3, 10>>),
      StrCell(<<"2", "0", "2", "4", "-", "3", "-", "9">>),
      StrCell(<<"2", "0", "2", "4", "-", "0", "3", "-", "1", "1">>),
      StrCell(<<"2", "0", "2", "4", "-", "0", "2", "-", "3", "0">>),
      NanCell }

Todays == { <<2024, 3, 10>>, <<2024, 3, 11>> }

\* Sequences of length at most n over a set.
SeqUpTo(S, n) == UNION { [1..k -> S] : k \in 0..n }

Rows3 == { <<p.nombre, p.email, c>> : p \in Personas, c \in Cells }
Rows4 == { <<"Luis", "luis@mail.cl", c, "7">> : c \in Cells }

FileRec(path, read, columns, rows) ==
    [path |-> path, read |-> read, columns |-> columns, rows |-> rows]

GoodFiles ==
    { FileRec(Chars_xlsx, "ok", Header_Title, rows) : rows \in SeqUpTo(Rows3, MaxRows) }
    \cup { FileRec(Chars_csv, "ok", Header_Extra, rows) : rows \in SeqUpTo(Rows4, MaxRows) }

OneRow == << <<"Ana", "ana@mail.cl", TsCell(<<2024, 3, 10>>)>> >>

BadFiles ==
    { FileRec(Chars_txt, "ok", Header_Title, OneRow),
      FileRec(Chars_XLSX, "ok", Header_Title, OneRow),
      FileRec(Chars_txt, "notfound", <<>>, <<>>),
      FileRec(Chars_xlsx, "notfound", <<>>, <<>>),
      FileRec(Chars_csv, "error", <<>>, <<>>),
      FileRec(Chars_csv, "ok", Header_NoEmail, OneRow),
      FileRec(Chars_xlsx, "ok", Header_Short, << <<"Ana", "ana@mail.cl">> >>) }

Files == GoodFiles \cup BadFiles

EmailUsers == { <<>>, << <<"u", "@", "d">> >>, << <<"k", "e", "y">> >> }
Passwords == { <<>>, << <<"p">> >> }
AdminEmails == { <<>>, << <<>> >>, << <<"a", "@", "d">> >> }

\* ----------------------------------------------------------------- actions
Init ==
    /\ EMAIL_USER \in EmailUsers
    /\ EMAIL_PASSWORD \in Passwords
    /\ ADMIN_EMAIL \in AdminEmails
    /\ file \in Files
    /\ pc = "start"
    /\ ALUMNOS_A_MONITOREAR = <<>>
    /\ hoy = NoDate
    /\ i = 0
    /\ j = 0
    /\ tareas_para_recordar = <<>>
    /\ data_warnings = <<>>
    /\ admin_alerts = <<>>
    /\ reminders = <<>>
    /\ smtp_log = <<>>

\* Line 129: the call of load_students_from_excel, with the admin alert of
\* its failure branches.
Load ==
    /\ pc = "start"
    /\ \E ok \in BOOLEAN :
          SetWorld(IF LoadBranch(file) = "OK" THEN World
                   ELSE send_admin_alert(World, LoadSubject(LoadBranch(file)),
                                         AlertBody(LoadMessage(LoadBranch(file)), "", <<>>),
                                         ok))
    /\ ALUMNOS_A_MONITOREAR' = load_students_from_excel(file)
    /\ pc' = "loaded"
    /\ UNCHANGED <<env, hoy, i, j, tareas_para_recordar, data_warnings>>

\* Lines 131-133: an empty roster ends the run.
ReturnEmpty ==
    /\ pc = "loaded"
    /\ ALUMNOS_A_MONITOREAR = <<>>
    /\ pc' = "done"
    /\ UNCHANGED <<env, ALUMNOS_A_MONITOREAR, hoy, i, j, tareas_para_recordar,
                   data_warnings, admin_alerts, reminders, smtp_log>>

\* Lines 135-144: the clock is read, the warning collection is created and
\* the loop enters its first student.
StartLoop ==
    /\ pc = "loaded"
    /\ ALUMNOS_A_MONITOREAR # <<>>
    /\ \E d \in Todays : hoy' = d
    /\ data_warnings' = <<>>
    /\ i' = 1
    /\ j' = 1
    /\ tareas_para_recordar' = <<>>
    /\ pc' = "loop"
    /\ UNCHANGED <<env, ALUMNOS_A_MONITOREAR, admin_alerts, reminders, smtp_log>>

alumno == ALUMNOS_A_MONITOREAR[i]

\* Lines 146-166: one task of the current student is evaluated.
EvalTask ==
    /\ pc = "loop"
    /\ j <= Len(alumno.tareas_pendientes)
    /\ LET r == EvalTarea(alumno.nombre, alumno.tareas_pendientes[j], hoy) IN
          /\ tareas_para_recordar' = tareas_para_recordar \o r.recordar
          /\ data_warnings' = data_warnings \o r.warnings
    /\ j' = j + 1
    /\ UNCHANGED <<env, pc, ALUMNOS_A_MONITOREAR, hoy, i, admin_alerts, reminders,
                   smtp_log>>

\* The loop moves to the next student (line 140), or leaves the loop.
NextAlumno ==
    /\ i' = i + 1
    /\ j' = 1
    /\ tareas_para_recordar' = <<>>
    /\ pc' = IF i = Len(ALUMNOS_A_MONITOREAR) THEN "flush" ELSE "loop"

\* Line 168: a student with an empty reminder list is passed over.
SkipStudent ==
    /\ pc = "loop"
    /\ j > Len(alumno.tareas_pendientes)
    /\ tareas_para_recordar = <<>>
    /\ NextAlumno
    /\ UNCHANGED <<env, ALUMNOS_A_MONITOREAR, hoy, data_warnings, admin_alerts,
                   reminders, smtp_log>>

\* Lines 168-187: composing the message raises (line 185) and the exception
\* leaves main_reminder_logic.
ComposeRaises ==
    /\ pc = "loop"
    /\ j > Len(alumno.tareas_pendientes)
    /\ tareas_para_recordar # <<>>
    /\ ComposeOutcome # "ok"
    /\ pc' = ComposeOutcome
    /\ UNCHANGED <<env, ALUMNOS_A_MONITOREAR, hoy, i, j, tareas_para_recordar,
                   data_warnings, admin_alerts, reminders, smtp_log>>

\* Lines 168-188: the consolidated message is composed and sent.
SendReminder ==
    /\ pc = "loop"
    /\ j > Len(alumno.tareas_pendientes)
    /\ tareas_para_recordar # <<>>
    /\ ComposeOutcome = "ok"
    /\ \E ok \in BOOLEAN, aok \in BOOLEAN :
          SetWorld(send_email_reminder(World, i, alumno.email,
                                       [nombre |-> alumno.nombre,
                                        lista_tareas |-> tareas_para_recordar,
                                        dominio |-> Dominio],
                                       ok, aok))
    /\ NextAlumno
    /\ UNCHANGED <<env, ALUMNOS_A_MONITOREAR, hoy, data_warnings>>

\* A variant of Flush that alerts even when there is no warning.
Flush_unconditional ==
    /\ pc = "flush"
    /\ \E ok \in BOOLEAN :
          SetWorld(send_admin_alert(World,
                       "ADVERTENCIAS DE FORMATO DE DATOS EN EXCEL/CSV",
                       AlertBody("Se detectaron los siguientes problemas de formato de datos",
                                 "", data_warnings),
                       ok))
    /\ pc' = "done"
    /\ UNCHANGED <<env, ALUMNOS_A_MONITOREAR, hoy, i, j, tareas_para_recordar,
                   data_warnings>>

\* Lines 190-197: the warnings of the run are reported in one alert.
Flush ==
    /\ pc = "flush"
    /\ \E ok \in BOOLEAN :
          SetWorld(IF data_warnings # <<>>
                   THEN send_admin_alert(World,
                            "ADVERTENCIAS DE FORMATO DE DATOS EN EXCEL/CSV",
                            AlertBody("Se detectaron los siguientes problemas de formato de datos",
                                      "", data_warnings),
                            ok)
                   ELSE World)
    /\ pc' = "done"
    /\ UNCHANGED <<env, ALUMNOS_A_MONITOREAR, hoy, i, j, tareas_para_recordar,
                   data_warnings>>

Next ==
    \/ Load
    \/ ReturnEmpty
    \/ StartLoop
    \/ EvalTask
    \/ SkipStudent
    \/ ComposeRaises
    \/ SendReminder
    \/ Flush

Spec == Init /\ [][Next]_vars

\* ------------------------------------------- the loop on a given roster
\* main_reminder_logic from line 131 on, for a roster handed to it directly
\* (students with several tasks, submitted or not).
DueTexts ==
    { <<"2", "0", "2", "4", "-", "0", "3", "-", "1", "0">>,
      <<"2", "0", "2", "4", "-", "3", "-", "9">>,
      <<"2", "0", "2", "4", "-", "0", "3", "-", "1", "1">>,
      <<"n", "a", "n">> }

RosterTasks ==
    { [nombre |-> TaskLabel, vencimiento |-> v, entregado |-> e] :
        v \in DueTexts, e \in BOOLEAN }

RosterStudents ==
    { [id |-> 1, nombre |-> p.nombre, email |-> p.email, tareas_pendientes |-> ts] :
        p \in Personas, ts \in SeqUpTo(RosterTasks, MaxTasks) }

\* A second student, with one unsubmitted task.
TailStudents ==
    { [id |-> 2, nombre |-> "Luis", email |-> "luis@mail.cl",
       tareas_pendientes |-> << [nombre |-> TaskLabel, vencimiento |-> v,
                                 entregado |-> FALSE] >>] :
        v \in { <<"2", "0", "2", "4", "-", "0", "3", "-", "1", "0">>, <<"n", "a", "n">> } }

Rosters ==
    { <<>> } \cup { <<a>> : a \in RosterStudents }
    \cup { <<a, b>> : a \in RosterStudents, b \in TailStudents }

NoFile == FileRec(<<>>, "ok", <<>>, <<>>)

InitRoster ==
    /\ EMAIL_USER \in EmailUsers
    /\ EMAIL_PASSWORD \in Passwords
    /\ ADMIN_EMAIL \in AdminEmails
    /\ file = NoFile
    /\ pc = "loaded"
    /\ ALUMNOS_A_MONITOREAR \in Rosters
    /\ hoy = NoDate
    /\ i = 0
    /\ j = 0
    /\ tareas_para_recordar = <<>>
    /\ data_warnings = <<>>
    /\ admin_alerts = <<>>
    /\ reminders = <<>>
    /\ smtp_log = <<>>

NextRoster ==
    \/ ReturnEmpty
    \/ StartLoop
    \/ EvalTask
    \/ SkipStudent
    \/ ComposeRaises
    \/ SendReminder
    \/ Flush

SpecRoster == InitRoster /\ [][NextRoster]_vars

\* ------------------------------------------------------------- properties
\* A date as a day count that grows with the calendar.
Ordinal(d) == d[1] * 372 + d[2] * 31 + d[3]

\* The task the loop is about to evaluate, if any.
AtTask == pc = "loop" /\ j <= Len(alumno.tareas_pendientes)
tarea == alumno.tareas_pendientes[j]

\* C1: an unsubmitted task whose due date parses as YYYY-MM-DD is added to
\* the reminder list as "PLAZO FINAL HOY" when due today, as "PLAZO EXPIRADO"
\* (with its due-date text) when due before today, and is not added when due
\* after today; in no case is a warning recorded.
C1_Step ==
    (AtTask /\ ~tarea.entregado /\ strptime(tarea.vencimiento) # <<>>) =>
        LET d == strptime(tarea.vencimiento)[1] IN
        /\ data_warnings' = data_warnings
        /\ Ordinal(d) = Ordinal(hoy) =>
              tareas_para_recordar' =
                 Append(tareas_para_recordar,
                        [nombre |-> tarea.nombre,
                         estado |-> [label |-> "**¡PLAZO FINAL HOY!**", fecha |-> <<>>]])
        /\ Ordinal(d) < Ordinal(hoy) =>
              tareas_para_recordar' =
                 Append(tareas_para_recordar,
                        [nombre |-> tarea.nombre,
                         estado |-> [label |-> "**PLAZO EXPIRADO**",
                                     fecha |-> tarea.vencimiento]])
        /\ Ordinal(d) > Ordinal(hoy) => tareas_para_recordar' = tareas_para_recordar

\* C1, as a property of every step: each evaluation step classifies by date.
C1_Classification == [][C1_Step]_vars

\* A finished run over two students, one due today and reminded, the other
\* due later and neither reminded nor warned about.
C1_Witness ==
    /\ pc = "done"
    /\ Len(ALUMNOS_A_MONITOREAR) = 2
    /\ data_warnings = <<>>
    /\ Len(reminders) = 1
    /\ reminders[1].body.lista_tareas[1].estado.label = "**¡PLAZO FINAL HOY!**"
    /\ \E p \in 1..2 :
          /\ strptime(ALUMNOS_A_MONITOREAR[p].tareas_pendientes[1].vencimiento) # <<>>
          /\ Ordinal(strptime(ALUMNOS_A_MONITOREAR[p].tareas_pendientes[1].vencimiento)[1])
                > Ordinal(hoy)

\* C2: evaluating a submitted task changes neither the reminder list nor the
\* warning collection and sends nothing; a student all of whose tasks are
\* submitted is never sent a reminder.
C2_Step ==
    (AtTask /\ tarea.entregado) =>
        /\ tareas_para_recordar' = tareas_para_recordar
        /\ data_warnings' = data_warnings
        /\ admin_alerts' = admin_alerts
        /\ reminders' = reminders

C2_AllSubmitted ==
    \A k \in 1..Len(reminders) :
        \E t \in 1..Len(ALUMNOS_A_MONITOREAR[reminders[k].pos].tareas_pendientes) :
            ~ALUMNOS_A_MONITOREAR[reminders[k].pos].tareas_pendientes[t].entregado

\* C2, as a property of every step and state: submitted tasks are never
\* classified.
C2_SubmittedNeverClassified == [][C2_Step]_vars /\ []C2_AllSubmitted

\* A finished run over a student with two submitted tasks, one due today or
\* before and one unparsable: no reminder, no warning.
C2_Witness ==
    /\ pc = "done"
    /\ Len(ALUMNOS_A_MONITOREAR) = 1
    /\ Len(ALUMNOS_A_MONITOREAR[1].tareas_pendientes) = 2
    /\ ALUMNOS_A_MONITOREAR[1].tareas_pendientes[1].entregado
    /\ ALUMNOS_A_MONITOREAR[1].tareas_pendientes[2].entregado
    /\ strptime(ALUMNOS_A_MONITOREAR[1].tareas_pendientes[1].vencimiento) # <<>>
    /\ Ordinal(strptime(ALUMNOS_A_MONITOREAR[1].tareas_pendientes[1].vencimiento)[1])
          <= Ordinal(hoy)
    /\ strptime(ALUMNOS_A_MONITOREAR[1].tareas_pendientes[2].vencimiento) = <<>>
    /\ reminders = <<>>
    /\ data_warnings = <<>>

\* ---- what a finished evaluation should hold, stated from the roster ----
\* The task is due today or earlier, unsubmitted, with a due date that parses.
Actionable(t, today) ==
    /\ ~t.entregado
    /\ strptime(t.vencimiento) # <<>>
    /\ Ordinal(strptime(t.vencimiento)[1]) <= Ordinal(today)

ExpectedEntry(t, today) ==
    [nombre |-> t.nombre,
     estado |-> IF Ordinal(strptime(t.vencimiento)[1]) = Ordinal(today)
                THEN [label |-> "**¡PLAZO FINAL HOY!**", fecha |-> <<>>]
                ELSE [label |-> "**PLAZO EXPIRADO**", fecha |-> t.vencimiento]]

\* The actionable tasks of a task list, in their order, with their status.
RECURSIVE ExpectedList(_, _)
ExpectedList(ts, today) ==
    IF ts = <<>> THEN <<>>
    ELSE (IF Actionable(ts[1], today) THEN <<ExpectedEntry(ts[1], today)>> ELSE <<>>)
         \o ExpectedList(Tail(ts), today)

Unparsable(t) == ~t.entregado /\ strptime(t.vencimiento) = <<>>

\* The warnings of a task list, in order.
RECURSIVE ExpectedWarnings(_, _)
ExpectedWarnings(nombre, ts) ==
    IF ts = <<>> THEN <<>>
    ELSE (IF Unparsable(ts[1])
          THEN <<[nombre |-> nombre, tarea |-> ts[1].nombre, valor |-> ts[1].vencimiento]>>
          ELSE <<>>)
         \o ExpectedWarnings(nombre, Tail(ts))

\* The warnings of a roster, in order.
RECURSIVE AllWarnings(_)
AllWarnings(roster) ==
    IF roster = <<>> THEN <<>>
    ELSE ExpectedWarnings(roster[1].nombre, roster[1].tareas_pendientes)
         \o AllWarnings(Tail(roster))

\* The loop has processed every student.
LoopOver == pc \in {"flush", "done"} /\ ALUMNOS_A_MONITOREAR # <<>>

Raised == pc \in {"AttributeError", "IndexError"}

RemindersOf(p) == { k \in 1..Len(reminders) : reminders[k].pos = p }

Sessions(kind) == { k \in 1..Len(smtp_log) : smtp_log[k].kind = kind }

IsFallo(a) == a.subject = "FALLO DE ENVÍO DE CORREO A ESTUDIANTE"
IsAdvertencia(a) == a.subject = "ADVERTENCIAS DE FORMATO DE DATOS EN EXCEL/CSV"
IsFailed(r) == ~r.ok

FalloAlerts == SelectSeq(admin_alerts, IsFallo)
WarnAlerts == SelectSeq(admin_alerts, IsAdvertencia)
FailedReminders == SelectSeq(reminders, IsFailed)

\* C3: every call of send_email_reminder is for a student with at least one
\* actionable task and carries all of that student's actionable tasks in
\* order; no student gets two calls; each call opens exactly one SMTP
\* session (no retry); and once the loop is over every student with an
\* actionable task has exactly one call, every other student none.
C3_OneSendPerStudent ==
    /\ \A k \in 1..Len(reminders) :
          LET a == ALUMNOS_A_MONITOREAR[reminders[k].pos] IN
          /\ ExpectedList(a.tareas_pendientes, hoy) # <<>>
          /\ reminders[k].body.lista_tareas = ExpectedList(a.tareas_pendientes, hoy)
          /\ reminders[k].to = a.email
          /\ reminders[k].body.nombre = a.nombre
    /\ \A p \in 1..Len(ALUMNOS_A_MONITOREAR) : Cardinality(RemindersOf(p)) <= 1
    /\ Cardinality(Sessions("recordatorio")) = Len(reminders)
    /\ LoopOver =>
          \A p \in 1..Len(ALUMNOS_A_MONITOREAR) :
              Cardinality(RemindersOf(p)) =
                 IF ExpectedList(ALUMNOS_A_MONITOREAR[p].tareas_pendientes, hoy) # <<>>
                 THEN 1 ELSE 0

\* A finished run: the first student has two actionable tasks and got one
\* message listing both, after a failed send; the second student has none
\* and got nothing.
C3_Witness ==
    /\ pc = "done"
    /\ Len(ALUMNOS_A_MONITOREAR) = 2
    /\ Len(reminders) = 1
    /\ ~reminders[1].ok
    /\ Len(reminders[1].body.lista_tareas) = 2
    /\ ExpectedList(ALUMNOS_A_MONITOREAR[2].tareas_pendientes, hoy) = <<>>

\* C4: every failed reminder send has exactly one delivery-failure alert,
\* in the same order, naming the address of that send; sends happen in
\* roster order; no run raises after a send; and once the loop is over,
\* every student after a failed send who has an actionable task has had a
\* send attempted.
C4_FailureIsolated ==
    /\ Len(FalloAlerts) = Len(FailedReminders)
    /\ \A n \in 1..Len(FalloAlerts) :
          /\ FalloAlerts[n].body.email = FailedReminders[n].to
          /\ FalloAlerts[n].body.msg = "FALLO DE ENVÍO SMTP"
    /\ \A k \in 1..Len(reminders) : \A l \in 1..Len(reminders) :
          k < l => reminders[k].pos < reminders[l].pos
    /\ reminders # <<>> => ~Raised
    /\ pc = "loop" => \A k \in 1..Len(reminders) : reminders[k].pos < i
    /\ \A k \in 1..Len(reminders) :
          ~reminders[k].ok =>
             \A q \in (reminders[k].pos + 1)..Len(ALUMNOS_A_MONITOREAR) :
                 ( /\ ExpectedList(ALUMNOS_A_MONITOREAR[q].tareas_pendientes, hoy) # <<>>
                   /\ (LoopOver \/ (pc = "loop" /\ q < i)) )
                 => RemindersOf(q) # {}

\* A finished run where the first student's send failed and the second
\* student's send succeeded, with one delivery-failure alert.
C4_Witness ==
    /\ pc = "done"
    /\ Len(reminders) = 2
    /\ ~reminders[1].ok
    /\ reminders[2].ok
    /\ reminders[2].pos = 2
    /\ Len(FalloAlerts) = 1
    /\ FalloAlerts[1].body.email = reminders[1].to

\* C5: whatever the configuration, the run never ends by an exception, and
\* at its end every student with an actionable task has had a send attempted.
C5_NeverRaises ==
    /\ ~Raised
    /\ LoopOver =>
          \A p \in 1..Len(ALUMNOS_A_MONITOREAR) :
              ExpectedList(ALUMNOS_A_MONITOREAR[p].tareas_pendientes, hoy) # <<>>
                 => RemindersOf(p) # {}

\* C6: evaluating an unsubmitted task whose due date does not parse adds
\* exactly one warning (naming the student, the task and the value), leaves
\* the reminder list and the outside world alone and moves on to the next
\* task; a student without any parseable task is passed over without a send
\* and the loop goes on; no reminder is ever sent to such a student.
C6_Step ==
    /\ (AtTask /\ Unparsable(tarea)) =>
          /\ data_warnings' =
                Append(data_warnings,
                       [nombre |-> alumno.nombre, tarea |-> tarea.nombre,
                        valor |-> tarea.vencimiento])
          /\ tareas_para_recordar' = tareas_para_recordar
          /\ reminders' = reminders
          /\ admin_alerts' = admin_alerts
          /\ pc' = "loop"
          /\ i' = i
          /\ j' = j + 1
    /\ ( /\ pc = "loop"
         /\ j > Len(alumno.tareas_pendientes)
         /\ \A t \in 1..Len(alumno.tareas_pendientes) :
               Unparsable(alumno.tareas_pendientes[t]) ) =>
          /\ reminders' = reminders
          /\ admin_alerts' = admin_alerts
          /\ i' = i + 1
          /\ pc' = IF i = Len(ALUMNOS_A_MONITOREAR) THEN "flush" ELSE "loop"

C6_NoSend ==
    \A k \in 1..Len(reminders) :
        \E t \in 1..Len(ALUMNOS_A_MONITOREAR[reminders[k].pos].tareas_pendientes) :
            ~Unparsable(ALUMNOS_A_MONITOREAR[reminders[k].pos].tareas_pendientes[t])

\* C6, as a property of every step and state: an unparsable due date gives
\* one warning and no send.
C6_UnparsableSkipped == [][C6_Step]_vars /\ []C6_NoSend

\* A finished run: the first student's due date did not parse (one warning,
\* no send) and the second student was still reminded.
C6_Witness ==
    /\ pc = "done"
    /\ Len(ALUMNOS_A_MONITOREAR) = 2
    /\ Unparsable(ALUMNOS_A_MONITOREAR[1].tareas_pendientes[1])
    /\ Len(data_warnings) = 1
    /\ data_warnings[1].valor = ALUMNOS_A_MONITOREAR[1].tareas_pendientes[1].vencimiento
    /\ Len(reminders) = 1
    /\ reminders[1].pos = 2

\* C7: the warning collection only grows; no warning alert exists before the
\* run is done, so none precedes a reminder send; once the loop is over the
\* collection holds the warnings of the whole roster in order; and a finished
\* run has no warning alert when the collection is empty, else exactly one,
\* the last alert of the run, whose body holds the whole collection.
C7_Step ==
    /\ Len(data_warnings') >= Len(data_warnings)
    /\ SubSeq(data_warnings', 1, Len(data_warnings)) = data_warnings
    /\ reminders' # reminders => WarnAlerts' = <<>>

C7_Inv ==
    /\ pc # "done" => WarnAlerts = <<>>
    /\ LoopOver => data_warnings = AllWarnings(ALUMNOS_A_MONITOREAR)
    /\ pc = "done" =>
          IF data_warnings = <<>> THEN WarnAlerts = <<>>
          ELSE /\ Len(WarnAlerts) = 1
               /\ WarnAlerts[1].body.warnings = data_warnings
               /\ admin_alerts[Len(admin_alerts)] = WarnAlerts[1]

\* C7, as a property of every step and state: warnings are alerted once, at
\* the end.
C7_WarningsBatched == [][C7_Step]_vars /\ []C7_Inv

\* A finished run with two warnings, reported in one alert.
C7_Witness ==
    /\ pc = "done"
    /\ Len(data_warnings) = 2
    /\ Len(WarnAlerts) = 1
    /\ Len(WarnAlerts[1].body.warnings) = 2

\* The subject expected for each input file that cannot be loaded.
C8_ExpectedSubject(f) ==
    IF f.path \in {Chars_txt, Chars_XLSX} THEN "FORMATO DE ARCHIVO INVÁLIDO"
    ELSE IF f.read = "notfound" THEN "ARCHIVO DE DATOS NO ENCONTRADO"
    ELSE IF f.read = "error" THEN "ERROR CRÍTICO EN LA LECTURA DE EXCEL/CSV"
    ELSE "COLUMNAS FALTANTES EN EXCEL/CSV"

\* C8: for an input file with an unsupported extension, a missing required
\* column, no file or a read error, the loader returns the empty list with
\* exactly one admin alert of that category, and the run ends with nothing
\* evaluated, nothing sent and no other alert.
C8_LoadFailure ==
    /\ pc = "start" => admin_alerts = <<>>
    /\ (pc # "start" /\ file \in BadFiles) =>
          /\ ALUMNOS_A_MONITOREAR = <<>>
          /\ Len(admin_alerts) = 1
          /\ admin_alerts[1].subject = C8_ExpectedSubject(file)
          /\ pc \in {"loaded", "done"}
          /\ hoy = NoDate
          /\ i = 0
          /\ data_warnings = <<>>
          /\ reminders = <<>>
          /\ Sessions("recordatorio") = {}
          /\ Cardinality(Sessions("alerta")) <= 1

\* A finished run on a file without the email column: one alert.
C8_Witness ==
    /\ pc = "done"
    /\ file.columns = Header_NoEmail
    /\ Len(admin_alerts) = 1
    /\ admin_alerts[1].subject = "COLUMNAS FALTANTES EN EXCEL/CSV"

\* v is the text cut at its first space.
CutAtFirstSpace(text, v) ==
    /\ \A k \in 1..Len(v) : v[k] # " "
    /\ \/ text = v
       \/ /\ Len(text) > Len(v)
          /\ SubSeq(text, 1, Len(v)) = v
          /\ text[Len(v) + 1] = " "

\* C9: a loadable file with N rows gives N students, the k-th with id k and
\* the name and address of row k, one task with the fixed label, not
\* submitted, due on the text of the row's due-date cell cut at the first
\* space; the loader sends no alert.
C9_LoadRows ==
    /\ (pc # "start" /\ file \in GoodFiles) =>
          /\ Len(ALUMNOS_A_MONITOREAR) = Len(file.rows)
          /\ \A k \in 1..Len(file.rows) :
                LET a == ALUMNOS_A_MONITOREAR[k] IN
                /\ a.id = k
                /\ a.nombre = file.rows[k][1]
                /\ a.email = file.rows[k][2]
                /\ Len(a.tareas_pendientes) = 1
                /\ a.tareas_pendientes[1].nombre = "Entrega Final del Curso (Adulto Mayor)"
                /\ a.tareas_pendientes[1].entregado = FALSE
                /\ CutAtFirstSpace(StrOf(file.rows[k][3]), a.tareas_pendientes[1].vencimiento)
    /\ (pc = "loaded" /\ file \in GoodFiles) => (admin_alerts = <<>> /\ smtp_log = <<>>)

\* Two rows loaded, the second holding a Timestamp (whose time of day is cut).
C9_Witness ==
    /\ pc = "loaded"
    /\ Len(ALUMNOS_A_MONITOREAR) = 2
    /\ ALUMNOS_A_MONITOREAR[2].id = 2
    /\ file.rows[2][3].kind = "ts"
    /\ Len(ALUMNOS_A_MONITOREAR[2].tareas_pendientes[1].vencimiento) = 10

\* Some configuration value of the alert channel is None or empty.
C10_Unset ==
    \/ ADMIN_EMAIL \in {<<>>, << <<>> >>}
    \/ EMAIL_USER \in {<<>>, << <<>> >>}
    \/ EMAIL_PASSWORD \in {<<>>, << <<>> >>}

\* C10: with a configuration value unset no alert session is ever opened;
\* otherwise exactly one session per call of send_admin_alert, failed or
\* not; and the calls are exactly the load failure, the failed reminder
\* sends and the warning batch: none is about a failed alert.
C10_AlertOnce ==
    /\ Cardinality(Sessions("alerta")) = IF C10_Unset THEN 0 ELSE Len(admin_alerts)
    /\ Len(admin_alerts) =
          (IF pc # "start" /\ file \in BadFiles THEN 1 ELSE 0)
          + Len(FailedReminders)
          + (IF pc = "done" /\ data_warnings # <<>> THEN 1 ELSE 0)
    /\ \A k \in 1..Len(admin_alerts) :
          admin_alerts[k].subject \in
             { "FORMATO DE ARCHIVO INVÁLIDO", "COLUMNAS FALTANTES EN EXCEL/CSV",
               "ARCHIVO DE DATOS NO ENCONTRADO", "ERROR CRÍTICO EN LA LECTURA DE EXCEL/CSV",
               "FALLO DE ENVÍO DE CORREO A ESTUDIANTE",
               "ADVERTENCIAS DE FORMATO DE DATOS EN EXCEL/CSV" }

\* A finished run with the channel configured and two alerts, both of whose
\* sessions failed: two sessions, no more.
C10_Witness ==
    /\ pc = "done"
    /\ ~C10_Unset
    /\ Len(admin_alerts) = 2
    /\ Cardinality(Sessions("alerta")) = 2
    /\ \A k \in Sessions("alerta") : ~smtp_log[k].ok

====
